---- MODULE Spec2Model ----
(***************************************************************************)
(* Eternal Sentinel: the liveness-and-release core.                        *)
(*                                                                         *)
(* One user with its PollingConfig, CheckIn rows, trustees and final       *)
(* letters; the scheduler (scripts/scheduler), the BullMQ workers          *)
(* (scripts/worker), the job helpers of lib/queue and the HTTP handlers    *)
(* that write the PollingConfig.  Time is counted in whole days since      *)
(* 2025-01-01T00:00Z; every handler runs at one instant of that clock.     *)
(***************************************************************************)
EXTENDS Integers, Sequences, FiniteSets, TLC

\* ---------------------------------------------------------------- bounds
MaxTime == 12
MaxOps == 6
MaxCheckIns == 2
MaxJobs == 2
MaxTriggers == 2
MaxAccessTime == 31
MaxWorkerTime == 4
NumTrustees == 2
NumLetters == 1

\* ------------------------------------------------------- program constants
NULL == -1
EscalationAttempts == 3
CheckInAttempts == 3
DeathProtocolAttempts == 5
AccessDays == 30
GraceTimeoutFloor == 7
DefaultGracePeriod1 == 7
DefaultGracePeriod2 == 14
DefaultGracePeriod3 == 7

Intervals == {"WEEKLY", "BIWEEKLY", "MONTHLY"}
PollingStatuses == {"ACTIVE", "PAUSED", "GRACE_1", "GRACE_2", "GRACE_3", "TRIGGERED"}
TrusteeStatuses == {"PENDING", "VERIFIED", "ACTIVE", "REVOKED"}
TrusteeIds == 1..NumTrustees
LetterIds == 1..NumLetters
AuditKinds == {"CHECK_IN_CONFIRMED", "MANUAL_CHECK_IN", "ADMIN_FORCE_CHECK_IN",
               "ADMIN_TRIGGER_DEATH_PROTOCOL", "POLLING_CONFIG_UPDATED",
               "POLLING_PAUSED", "POLLING_RESUMED", "ESCALATION_LEVEL_1",
               "ESCALATION_LEVEL_2", "ESCALATION_LEVEL_3",
               "DEATH_PROTOCOL_TRIGGERED", "TRUSTEE_ADDED", "TRUSTEE_UPDATED",
               "TRUSTEE_REMOVED", "FINAL_LETTER_CREATED", "VAULT_CREATED"}

VARIABLES
  now,             \* the wall clock, in days
  cfg,             \* the user's PollingConfig row
  checkIns,        \* the user's CheckIn rows, in creation order; the token of a row is its index
  trustees,        \* trustee id -> Trustee row (status "NONE": no such row)
  letters,         \* letter id -> FinalLetter status ("NONE": no such row)
  checkInQ,        \* jobs of the check-in queue
  escalationQ,     \* jobs of the escalation queue
  deathProtocolQ,  \* jobs of the death-protocol queue
  timers,          \* fire times of the escalation worker's in-memory setTimeout callbacks
  auditLog,        \* audit action -> number of AuditLog rows
  accessLog,       \* trustee id -> number of ACCESS_GRANTED TrusteeAccessLog rows
  tokens,          \* number of trustee access tokens generated so far
  triggers,        \* number of death-protocol runs that wrote status TRIGGERED
  expiredCheckIns, \* what a scheduler pass has loaded and not yet written: the expired
                   \* check-ins of its findMany and the PollingConfig read with them
  escalationRun,   \* what an execution of the escalation worker has read and not yet
                   \* written: the job, and the PollingConfig fields it will use
  vault,           \* whether the user's Vault row exists
  duePass,         \* a scheduler pass that has created a due check-in and not yet
                   \* advanced nextCheckInDue: the row it created, the interval it read
  trusteeLog,      \* trustee id -> number of VIEW and of EMAIL_VERIFIED TrusteeAccessLog rows
  ops,             \* the part of the request budget used so far
  last             \* the operation that produced this state, and how it ended

vars == <<now, cfg, checkIns, trustees, letters, checkInQ, escalationQ,
          deathProtocolQ, timers, auditLog, accessLog, tokens, triggers, ops, last,
          expiredCheckIns, escalationRun, vault, trusteeLog, duePass>>

\* ---------------------------------------------------------------- helpers
Min(S) == CHOOSE x \in S : \A y \in S : x <= y

RemoveAt(q, i) == [k \in 1..(Len(q) - 1) |-> IF k < i THEN q[k] ELSE q[k + 1]]

Rank(t, S) == Cardinality({u \in S : u <= t})

Did(op, result) ==
  [op |-> op, result |-> result, level |-> 0, raced |-> FALSE, token |-> NULL,
   attempts |-> 0]

\* A request that presented a token was answered.
DidWith(op, result, token) ==
  [op |-> op, result |-> result, level |-> 0, raced |-> FALSE, token |-> token,
   attempts |-> 0]

\* An escalation job was executed: its level, whether a confirmation was applied
\* between its enqueue and now, and how many executions of it had failed before.
DidJob(op, result, job) ==
  [op |-> op, result |-> result, level |-> job.level, raced |-> job.confirmedSince,
   token |-> NULL, attempts |-> job.attempts]

Log(log, kind) == [log EXCEPT ![kind] = @ + 1]

\* Date.setMonth(getMonth() + 1) on the model's calendar (day 0 is 1 January 2025):
\* every January date lands 31 days later, every February date 28 days later.
AddMonth(t) == IF t < 31 THEN t + 31 ELSE IF t < 59 THEN t + 28 ELSE t + 31

AddInterval(t, interval) ==
  CASE interval = "WEEKLY" -> t + 7
    [] interval = "BIWEEKLY" -> t + 14
    [] OTHER -> AddMonth(t)

ResponseWindow(interval) ==
  CASE interval = "WEEKLY" -> 3
    [] interval = "BIWEEKLY" -> 5
    [] OTHER -> 7

\* Prisma's @updatedAt: every update of the row stamps it.
Touch(c) == [c EXCEPT !.updatedAt = now]

\* No scheduler pass is between its expired-check-ins query and the loop over the result.
NoneLoaded == [ids |-> {}, status |-> "ACTIVE", currentMissedCheckIns |-> 0]

\* No scheduler pass is between creating a due check-in and advancing nextCheckInDue.
\* issuedFor is a ghost field: the nextCheckInDue for which the due subscan last
\* created a check-in.
NoDuePass == [created |-> 0, interval |-> "MONTHLY", issuedFor |-> NULL]

\* No execution of the escalation worker is between its read and its writes.
NoRun ==
  [job |-> [level |-> 0, previousMissedCount |-> 0, attempts |-> 0,
            confirmedSince |-> FALSE],
   currentMissedCheckIns |-> 0, gracePeriod |-> 0, confirmations |-> 0]

\* ------------------------------------------------------------------- Init
Init ==
  /\ now = 0
  /\ cfg = [status |-> "ACTIVE", currentMissedCheckIns |-> 0, interval |-> "MONTHLY",
            gracePeriod1 |-> DefaultGracePeriod1, gracePeriod2 |-> DefaultGracePeriod2,
            gracePeriod3 |-> DefaultGracePeriod3, lastCheckInAt |-> NULL,
            nextCheckInDue |-> NULL, triggeredAt |-> NULL, updatedAt |-> 0,
            grace3Since |-> NULL, grace3Period |-> NULL]
  /\ checkIns = <<>>
  /\ trustees = [t \in TrusteeIds |->
                   [status |-> "NONE", verificationToken |-> NULL, verifiedAt |-> NULL,
                    accessToken |-> NULL, accessGrantedAt |-> NULL,
                    accessExpiresAt |-> NULL]]
  /\ letters = [l \in LetterIds |-> "NONE"]
  /\ checkInQ = <<>>
  /\ escalationQ = <<>>
  /\ deathProtocolQ = <<>>
  /\ timers = {}
  /\ auditLog = [k \in AuditKinds |-> 0]
  /\ accessLog = [t \in TrusteeIds |-> 0]
  /\ tokens = 0
  /\ triggers = 0
  /\ ops = 0
  /\ last = Did("register", "done")
  /\ expiredCheckIns = NoneLoaded
  /\ escalationRun = NoRun
  /\ vault = FALSE
  /\ trusteeLog = [t \in TrusteeIds |-> [VIEW |-> 0, EMAIL_VERIFIED |-> 0]]
  /\ duePass = NoDuePass

\* ------------------------------------------------------------- lib/queue
scheduleCheckInReminder(q, checkInId) == Append(q, [checkInId |-> checkInId, attempts |-> 0])

\* confirmedSince is a ghost field: whether a confirmation was applied to the user
\* after this job was enqueued.
scheduleEscalation(q, level, previousMissedCount) ==
  Append(q, [level |-> level, previousMissedCount |-> previousMissedCount,
             attempts |-> 0, confirmedSince |-> FALSE])

triggerDeathProtocol(q) == Append(q, [attempts |-> 0])

\* A failed job is retried until its attempts are used up.
Retry(q, job, maxAttempts) ==
  IF job.attempts + 1 < maxAttempts
    THEN Append(q, [job EXCEPT !.attempts = @ + 1])
    ELSE q

\* ------------------------------------------------------------------ clock
\* The instants the stored deadlines make interesting.
Deadlines ==
  ({cfg.nextCheckInDue}
     \cup {checkIns[i].expiresAt : i \in {j \in DOMAIN checkIns : checkIns[j].status = "PENDING"}}
     \cup timers
     \cup (IF cfg.status = "GRACE_3"
             THEN {cfg.updatedAt + GraceTimeoutFloor, cfg.updatedAt + cfg.gracePeriod3}
             ELSE {}))
  \ {NULL}

Instants == {t \in (now + 1)..MaxTime : t \in Deadlines \/ (t - 1) \in Deadlines}

\* The setTimeout callback of the level-3 escalation (worker lines 194-201).
TimerFires(q, fired) ==
  IF cfg.status = "GRACE_3" /\ fired # {} THEN triggerDeathProtocol(q) ELSE q

\* Time passes, up to the next instant at which a stored deadline is reached or has
\* just passed; the timers that are due by then run their callback.
Tick ==
  /\ Instants # {}
  /\ expiredCheckIns = NoneLoaded
  /\ escalationRun = NoRun
  /\ duePass.created = 0
  /\ LET t == Min(Instants)
         fired == {x \in timers : x <= t}
     IN /\ now' = t
        /\ timers' = timers \ fired
        /\ deathProtocolQ' = TimerFires(deathProtocolQ, fired)
        /\ Len(deathProtocolQ') <= MaxJobs
  /\ last' = Did("tick", "done")
  /\ UNCHANGED <<cfg, checkIns, trustees, letters, checkInQ, escalationQ,
                 auditLog, accessLog, tokens, triggers, ops, escalationRun, expiredCheckIns,
                 vault, trusteeLog, duePass>>

\* -------------------------------------------------------------- scheduler
CheckInIsDue(c) ==
  c.status = "ACTIVE" /\ c.nextCheckInDue # NULL /\ c.nextCheckInDue <= now

CheckInIsExpired(ci) == ci.status = "PENDING" /\ ci.expiresAt < now

\* A scheduler that escalates a paused user like an active one: C19 must fail
\* against it.
EscalationLevelIgnoringPause(c) ==
  IF c.currentMissedCheckIns = 0 /\ c.status \in {"ACTIVE", "PAUSED"} THEN 1 ELSE 0

\* The level the scheduler escalates to on a missed check-in; 0: none.
EscalationLevel(c) ==
  LET newMissedCount == c.currentMissedCheckIns + 1
  IN IF c.status \in {"PAUSED", "TRIGGERED"} THEN 0
     ELSE IF newMissedCount = 1 /\ c.status = "ACTIVE" THEN 1
     ELSE IF newMissedCount = 2 /\ c.status = "GRACE_1" THEN 2
     ELSE IF newMissedCount >= 3 /\ c.status = "GRACE_2" THEN 3
     ELSE 0

GracePeriodExpired(c) ==
  /\ c.status = "GRACE_3"
  /\ c.updatedAt < now - GraceTimeoutFloor
  /\ now > c.updatedAt + c.gracePeriod3

RECURSIVE EnqueueEscalations(_, _, _, _)
EnqueueEscalations(q, n, level, previousMissedCount) ==
  IF n = 0 THEN q
  ELSE EnqueueEscalations(scheduleEscalation(q, level, previousMissedCount),
                          n - 1, level, previousMissedCount)

\* One pass of processScheduledTasks: due check-ins, expired check-ins, GRACE_3 timeout.
processScheduledTasks ==
  LET due == CheckInIsDue(cfg)
      cfg1 == IF due
                THEN Touch([cfg EXCEPT !.nextCheckInDue = AddInterval(now, cfg.interval)])
                ELSE cfg
      checkIns1 == IF due
                     THEN Append(checkIns, [status |-> "PENDING",
                                            expiresAt |-> now + ResponseWindow(cfg.interval)])
                     ELSE checkIns
      expired == {i \in DOMAIN checkIns1 : CheckInIsExpired(checkIns1[i])}
      level == EscalationLevel(cfg1)
  IN /\ expiredCheckIns = NoneLoaded
     /\ Len(checkIns1) <= MaxCheckIns
     /\ cfg' = cfg1
     /\ checkIns' = [i \in DOMAIN checkIns1 |->
                       IF i \in expired THEN [checkIns1[i] EXCEPT !.status = "MISSED"]
                       ELSE checkIns1[i]]
     /\ checkInQ' = IF due THEN scheduleCheckInReminder(checkInQ, Len(checkIns1)) ELSE checkInQ
     /\ escalationQ' = IF level = 0 THEN escalationQ
                       ELSE EnqueueEscalations(escalationQ, Cardinality(expired), level,
                                               cfg1.currentMissedCheckIns + 1)
     /\ deathProtocolQ' = IF GracePeriodExpired(cfg1)
                            THEN triggerDeathProtocol(deathProtocolQ)
                            ELSE deathProtocolQ
     /\ Len(checkInQ') <= MaxJobs
     /\ Len(escalationQ') <= MaxJobs
     /\ Len(deathProtocolQ') <= MaxJobs
     /\ duePass' = IF due THEN [duePass EXCEPT !.issuedFor = cfg.nextCheckInDue]
                    ELSE duePass
     /\ last' = Did("scheduler", IF due \/ expired # {} THEN "done" ELSE "idle")
     /\ UNCHANGED <<now, trustees, letters, timers, auditLog, accessLog, tokens, triggers, ops,
                 escalationRun, expiredCheckIns,
                 vault, trusteeLog>>

\* What the expired-check-ins query returns: the rows, and with each the user's
\* PollingConfig as it is at the time of the query (include: user.pollingConfig).
LoadExpired(cis, c) ==
  [ids |-> {i \in DOMAIN cis : CheckInIsExpired(cis[i])},
   status |-> c.status, currentMissedCheckIns |-> c.currentMissedCheckIns]

\* A pass of processScheduledTasks that other handlers overtake between its
\* expired-check-ins query and its loop: this is the pass up to and including the query.
loadExpiredCheckIns ==
  LET due == CheckInIsDue(cfg)
      cfg1 == IF due
                THEN Touch([cfg EXCEPT !.nextCheckInDue = AddInterval(now, cfg.interval)])
                ELSE cfg
      checkIns1 == IF due
                     THEN Append(checkIns, [status |-> "PENDING",
                                            expiresAt |-> now + ResponseWindow(cfg.interval)])
                     ELSE checkIns
      loaded == LoadExpired(checkIns1, cfg1)
  IN /\ expiredCheckIns = NoneLoaded
     /\ loaded.ids # {}
     /\ Len(checkIns1) <= MaxCheckIns
     /\ cfg' = cfg1
     /\ checkIns' = checkIns1
     /\ checkInQ' = IF due THEN scheduleCheckInReminder(checkInQ, Len(checkIns1)) ELSE checkInQ
     /\ Len(checkInQ') <= MaxJobs
     /\ expiredCheckIns' = loaded
     /\ duePass' = IF due THEN [duePass EXCEPT !.issuedFor = cfg.nextCheckInDue]
                    ELSE duePass
     /\ last' = Did("schedulerQuery", "done")
     /\ UNCHANGED <<now, trustees, letters, escalationQ, deathProtocolQ, timers, auditLog,
                    accessLog, tokens, triggers, ops,
                    escalationRun, vault, trusteeLog>>

\* The rest of that pass: the loop writes MISSED to every loaded row by id, decides
\* the escalation from the PollingConfig loaded with the row, and the GRACE_3 query
\* follows.
markExpiredCheckIns ==
  LET level == EscalationLevel(expiredCheckIns)
  IN /\ expiredCheckIns # NoneLoaded
     /\ checkIns' = [i \in DOMAIN checkIns |->
                       IF i \in expiredCheckIns.ids
                         THEN [checkIns[i] EXCEPT !.status = "MISSED"]
                         ELSE checkIns[i]]
     /\ escalationQ' = IF level = 0 THEN escalationQ
                       ELSE EnqueueEscalations(escalationQ,
                                               Cardinality(expiredCheckIns.ids), level,
                                               expiredCheckIns.currentMissedCheckIns + 1)
     /\ deathProtocolQ' = IF GracePeriodExpired(cfg)
                            THEN triggerDeathProtocol(deathProtocolQ)
                            ELSE deathProtocolQ
     /\ Len(escalationQ') <= MaxJobs
     /\ Len(deathProtocolQ') <= MaxJobs
     /\ expiredCheckIns' = NoneLoaded
     /\ last' = Did("schedulerLoop", "done")
     /\ UNCHANGED <<now, cfg, trustees, letters, checkInQ, timers, auditLog, accessLog,
                    tokens, triggers, ops,
                    escalationRun, vault, trusteeLog, duePass>>

\* A pass of processScheduledTasks that is overtaken, or ends, inside its due loop:
\* this is the pass up to and including prisma.checkIn.create.
createDueCheckIn ==
  /\ duePass.created = 0
  /\ expiredCheckIns = NoneLoaded
  /\ CheckInIsDue(cfg)
  /\ Len(checkIns) < MaxCheckIns
  /\ checkIns' = Append(checkIns, [status |-> "PENDING",
                                   expiresAt |-> now + ResponseWindow(cfg.interval)])
  /\ duePass' = [created |-> Len(checkIns) + 1, interval |-> cfg.interval,
                 issuedFor |-> cfg.nextCheckInDue]
  /\ last' = Did("schedulerCreate", "done")
  /\ UNCHANGED <<now, cfg, trustees, letters, checkInQ, escalationQ, deathProtocolQ,
                 timers, auditLog, accessLog, tokens, triggers, ops, escalationRun,
                 expiredCheckIns, vault, trusteeLog>>

\* The rest of that pass: the reminder is scheduled, nextCheckInDue is advanced by the
\* interval the pass read, and the expired-check-ins and GRACE_3 subscans follow.
finishDueCheckIn ==
  LET cfg1 == Touch([cfg EXCEPT !.nextCheckInDue = AddInterval(now, duePass.interval)])
      expired == {i \in DOMAIN checkIns : CheckInIsExpired(checkIns[i])}
      level == EscalationLevel(cfg1)
  IN /\ duePass.created # 0
     /\ cfg' = cfg1
     /\ checkIns' = [i \in DOMAIN checkIns |->
                       IF i \in expired THEN [checkIns[i] EXCEPT !.status = "MISSED"]
                       ELSE checkIns[i]]
     /\ checkInQ' = scheduleCheckInReminder(checkInQ, duePass.created)
     /\ escalationQ' = IF level = 0 THEN escalationQ
                       ELSE EnqueueEscalations(escalationQ, Cardinality(expired), level,
                                               cfg1.currentMissedCheckIns + 1)
     /\ deathProtocolQ' = IF GracePeriodExpired(cfg1)
                            THEN triggerDeathProtocol(deathProtocolQ)
                            ELSE deathProtocolQ
     /\ Len(checkInQ') <= MaxJobs
     /\ Len(escalationQ') <= MaxJobs
     /\ Len(deathProtocolQ') <= MaxJobs
     /\ duePass' = [duePass EXCEPT !.created = 0, !.interval = NoDuePass.interval]
     /\ last' = Did("schedulerFinish", "done")
     /\ UNCHANGED <<now, trustees, letters, timers, auditLog, accessLog, tokens, triggers,
                    ops, escalationRun, expiredCheckIns, vault, trusteeLog>>

\* That pass ends after prisma.checkIn.create instead: scheduleCheckInReminder
\* rejects and the catch block logs the error, or the process is stopped.  Nothing
\* after the create is written.
abortDueCheckIn ==
  /\ duePass.created # 0
  /\ duePass' = [duePass EXCEPT !.created = 0, !.interval = NoDuePass.interval]
  /\ last' = Did("schedulerAbort", "failed")
  /\ UNCHANGED <<now, cfg, checkIns, trustees, letters, checkInQ, escalationQ,
                 deathProtocolQ, timers, auditLog, accessLog, tokens, triggers, ops,
                 escalationRun, expiredCheckIns, vault, trusteeLog>>

\* ---------------------------------------------------------------- workers
\* The check-in reminder worker: no store write; sendEmail may throw, and the job
\* is then retried.
checkInWorker(i) ==
  LET job == checkInQ[i]
      rest == RemoveAt(checkInQ, i)
      skipped == checkIns[job.checkInId].status # "PENDING" \/ cfg.status = "PAUSED"
  IN /\ IF skipped
          THEN /\ checkInQ' = rest
               /\ last' = Did("checkInWorker", "skipped")
          ELSE \E sent \in BOOLEAN :
                 /\ checkInQ' = IF sent THEN rest ELSE Retry(rest, job, CheckInAttempts)
                 /\ last' = Did("checkInWorker", IF sent THEN "done" ELSE "failed")
     /\ UNCHANGED <<now, cfg, checkIns, trustees, letters, escalationQ, deathProtocolQ,
                    timers, auditLog, accessLog, tokens, triggers, ops, escalationRun, expiredCheckIns,
                 vault, trusteeLog, duePass>>

\* A worker without the staleness guard: C5 must fail against it.
EscalationNeverCancelled(c, job) == FALSE

\* "Check if user has checked in since this job was scheduled" (worker line 117).
EscalationCancelled(c, job) == c.currentMissedCheckIns < job.previousMissedCount

EscalationSkipped(c, job) ==
  c.status \in {"PAUSED", "TRIGGERED"} \/ EscalationCancelled(c, job)

GracePeriodOf(c, level) ==
  IF level = 1 THEN c.gracePeriod1 ELSE IF level = 2 THEN c.gracePeriod2 ELSE c.gracePeriod3

GraceStatusOf(level) ==
  IF level = 1 THEN "GRACE_1" ELSE IF level = 2 THEN "GRACE_2" ELSE "GRACE_3"

EscalationAudit(level) ==
  IF level = 1 THEN "ESCALATION_LEVEL_1"
  ELSE IF level = 2 THEN "ESCALATION_LEVEL_2" ELSE "ESCALATION_LEVEL_3"

\* The update the escalation worker writes: the grace status of the job's level and
\* the missed count it read, plus one.  grace3Since and grace3Period are ghost fields:
\* the time of the most recent entry into GRACE_3 and the gracePeriod3 in force then.
EscalatedConfig(c, level, readMissedCheckIns) ==
  Touch([c EXCEPT !.status = GraceStatusOf(level),
                  !.currentMissedCheckIns = readMissedCheckIns + 1,
                  !.grace3Since = IF level = 3 /\ c.status # "GRACE_3" THEN now ELSE @,
                  !.grace3Period = IF level = 3 /\ c.status # "GRACE_3"
                                     THEN c.gracePeriod3 ELSE @])

\* The escalation worker.  The new check-in and the config update are written
\* before the warning email is sent; if sendEmail throws, the job fails there and is
\* retried, with no audit row and no timer.
escalationWorker(i) ==
  LET job == escalationQ[i]
      rest == RemoveAt(escalationQ, i)
      gracePeriod == GracePeriodOf(cfg, job.level)
  IN /\ IF EscalationSkipped(cfg, job)
          THEN /\ escalationQ' = rest
               /\ last' = DidJob("escalationWorker", "skipped", job)
               /\ UNCHANGED <<cfg, checkIns, auditLog, timers>>
          ELSE \E sent \in BOOLEAN :
                 /\ Len(checkIns) < MaxCheckIns
                 /\ checkIns' = Append(checkIns, [status |-> "PENDING",
                                                  expiresAt |-> now + gracePeriod])
                 /\ cfg' = EscalatedConfig(cfg, job.level, cfg.currentMissedCheckIns)
                 /\ escalationQ' = IF sent THEN rest
                                   ELSE Retry(rest, job, EscalationAttempts)
                 /\ auditLog' = IF sent THEN Log(auditLog, EscalationAudit(job.level))
                                ELSE auditLog
                 /\ timers' = IF sent /\ job.level = 3
                                THEN timers \cup {now + gracePeriod} ELSE timers
                 /\ last' = DidJob("escalationWorker", IF sent THEN "done" ELSE "failed", job)
     /\ UNCHANGED <<now, trustees, letters, checkInQ, deathProtocolQ, accessLog,
                    tokens, triggers, ops, escalationRun, expiredCheckIns,
                 vault, trusteeLog, duePass>>

\* The confirmations committed so far by the confirm route: each writes one audit
\* row.
Confirmations == auditLog["CHECK_IN_CONFIRMED"]

\* An execution of the escalation worker that other handlers overtake between its
\* read of the PollingConfig and its writes: this is the execution up to and
\* including the read (findUnique) and the two early returns.
readEscalationJob(i) ==
  LET job == escalationQ[i]
  IN /\ escalationRun = NoRun
     /\ expiredCheckIns = NoneLoaded
     /\ ~EscalationSkipped(cfg, job)
     /\ escalationRun' = [job |-> job,
                          currentMissedCheckIns |-> cfg.currentMissedCheckIns,
                          gracePeriod |-> GracePeriodOf(cfg, job.level),
                          confirmations |-> Confirmations]
     /\ escalationQ' = RemoveAt(escalationQ, i)
     /\ last' = DidJob("escalationRead", "done", job)
     /\ UNCHANGED <<now, cfg, checkIns, trustees, letters, checkInQ, deathProtocolQ,
                    timers, auditLog, accessLog, tokens, triggers, ops, expiredCheckIns,
                    vault, trusteeLog, duePass>>

\* The rest of that execution: the new check-in, the update of the PollingConfig
\* from the values read, the warning email, the audit row and the timer.
writeEscalationJob ==
  LET job == escalationRun.job
  IN /\ escalationRun # NoRun
     /\ Len(checkIns) < MaxCheckIns
     /\ \E sent \in BOOLEAN :
          /\ checkIns' = Append(checkIns, [status |-> "PENDING",
                                           expiresAt |-> now + escalationRun.gracePeriod])
          /\ cfg' = EscalatedConfig(cfg, job.level, escalationRun.currentMissedCheckIns)
          /\ escalationQ' = IF sent THEN escalationQ
                            ELSE Retry(escalationQ, job, EscalationAttempts)
          /\ auditLog' = IF sent THEN Log(auditLog, EscalationAudit(job.level))
                         ELSE auditLog
          /\ timers' = IF sent /\ job.level = 3
                         THEN timers \cup {now + escalationRun.gracePeriod} ELSE timers
          /\ last' = DidJob("escalationWrite", IF sent THEN "done" ELSE "failed", job)
     /\ Len(escalationQ') <= MaxJobs
     /\ escalationRun' = NoRun
     /\ UNCHANGED <<now, trustees, letters, checkInQ, deathProtocolQ, accessLog, tokens,
                    triggers, ops, expiredCheckIns, vault, trusteeLog, duePass>>

\* A worker without the already-triggered check: C10 must fail against it.
NeverAlreadyTriggered(c) == FALSE

\* "Double-check status" (worker line 234).
AlreadyTriggered(c) == c.status = "TRIGGERED"

\* A worker that loads every trustee that is not revoked: C7 must fail against it.
UnrevokedTrustees(ts) ==
  {t \in TrusteeIds : ts[t].status \in {"PENDING", "VERIFIED", "ACTIVE"}}

\* The trustees the death-protocol worker loads (worker lines 221-223).
NotifiableTrustees(ts) == {t \in TrusteeIds : ts[t].status \in {"VERIFIED", "ACTIVE"}}

GrantAccess(tr, token) ==
  [tr EXCEPT !.accessToken = token, !.accessGrantedAt = now,
             !.accessExpiresAt = now + AccessDays, !.status = "ACTIVE"]

\* What one run of the trustee loop leaves behind when the first `logged` trustees
\* were handled completely: a run that throws in the notification of trustee
\* number logged + 1 has already written that trustee's token.
GrantedBy(loaded, logged) ==
  {t \in loaded : Rank(t, loaded) <= logged + 1}

\* A release that sets the status and no date: C16 must fail against it.
TriggeredWithoutDate(c) == Touch([c EXCEPT !.status = "TRIGGERED"])

\* The first write of the death protocol (worker lines 240-246).
TriggeredConfig(c) == Touch([c EXCEPT !.status = "TRIGGERED", !.triggeredAt = now])

\* The death-protocol worker (queue concurrency 1: one job at a time, oldest first).
\* The config is set to TRIGGERED first; then, trustee by trustee, the token is
\* written, the trustee is notified (sendEmail/sendSms may throw, failing the job)
\* and the ACCESS_GRANTED row is written; the audit row comes last.
deathProtocolWorker ==
  /\ deathProtocolQ # <<>>
  /\ LET job == Head(deathProtocolQ)
         rest == Tail(deathProtocolQ)
         loaded == NotifiableTrustees(trustees)
     IN IF AlreadyTriggered(cfg)
          THEN /\ deathProtocolQ' = rest
               /\ last' = Did("deathProtocolWorker", "skipped")
               /\ UNCHANGED <<cfg, trustees, auditLog, accessLog, tokens, triggers>>
          ELSE \E logged \in 0..Cardinality(loaded) :
                 LET complete == logged = Cardinality(loaded)
                     granted == GrantedBy(loaded, logged)
                 IN /\ triggers < MaxTriggers
                    /\ cfg' = TriggeredConfig(cfg)
                    /\ trustees' = [t \in TrusteeIds |->
                                      IF t \in granted
                                        THEN GrantAccess(trustees[t], tokens + Rank(t, loaded))
                                        ELSE trustees[t]]
                    /\ tokens' = tokens + Cardinality(granted)
                    /\ accessLog' = [t \in TrusteeIds |->
                                       IF t \in loaded /\ Rank(t, loaded) <= logged
                                         THEN accessLog[t] + 1 ELSE accessLog[t]]
                    /\ auditLog' = IF complete
                                     THEN Log(auditLog, "DEATH_PROTOCOL_TRIGGERED")
                                     ELSE auditLog
                    /\ deathProtocolQ' = IF complete THEN rest
                                         ELSE Retry(rest, job, DeathProtocolAttempts)
                    /\ triggers' = triggers + 1
                    /\ last' = Did("deathProtocolWorker",
                                   IF complete THEN "done" ELSE "failed")
  /\ UNCHANGED <<now, checkIns, letters, checkInQ, escalationQ, timers, ops, escalationRun, expiredCheckIns,
                 vault, trusteeLog, duePass>>

\* ---------------------------------------------------------- HTTP handlers
\* The request budget of the model: a request to the check-in, polling or admin
\* routes takes two units of it, a request that manages trustees or letters one.
Request == ops + 2 <= MaxOps /\ ops' = ops + 2

ManagementRequest == ops + 1 <= MaxOps /\ ops' = ops + 1

\* A check-in that leaves the next due date alone: C6 must fail against it.
CheckedInKeepingDue(c) ==
  Touch([c EXCEPT !.lastCheckInAt = now, !.currentMissedCheckIns = 0, !.status = "ACTIVE"])

\* A check-in that counts one more miss instead of resetting the count: C17 must
\* fail against it.
CheckedInCountingMiss(c) ==
  Touch([c EXCEPT !.lastCheckInAt = now,
                  !.nextCheckInDue = AddInterval(now, c.interval),
                  !.currentMissedCheckIns = c.currentMissedCheckIns + 1,
                  !.status = "ACTIVE"])

\* The data every check-in handler writes to the PollingConfig (confirm route lines
\* 97-105; the manual route, lines 282-290, and the admin route, lines 160-168,
\* write the same fields).
CheckedInConfig(c) ==
  Touch([c EXCEPT !.lastCheckInAt = now,
                  !.nextCheckInDue = AddInterval(now, c.interval),
                  !.currentMissedCheckIns = 0,
                  !.status = "ACTIVE"])

\* An updateMany that also reopens the rows already resolved: C13 must fail against it.
ConfirmPendingReopenResolved(cis) ==
  [i \in DOMAIN cis |->
     [cis[i] EXCEPT !.status = IF cis[i].status = "PENDING" THEN "CONFIRMED" ELSE "PENDING"]]

\* updateMany({status: "PENDING"} -> CONFIRMED) of the manual and admin routes.
ConfirmAllPending(cis) ==
  [i \in DOMAIN cis |->
     IF cis[i].status = "PENDING" THEN [cis[i] EXCEPT !.status = "CONFIRMED"] ELSE cis[i]]

\* Ghost bookkeeping: the queued escalation jobs have now seen a confirmation.
NoteConfirmation(q) == [k \in DOMAIN q |-> [q[k] EXCEPT !.confirmedSince = TRUE]]

\* A confirm route that refuses only the missed check-ins: C23 must fail against it.
AlreadyProcessedOnlyMissed(ci) == ci.status = "MISSED"

\* "Check if already processed" (confirm route line 42).
AlreadyProcessed(ci) == ci.status # "PENDING"

\* A confirm request is refused when the check-in is past its deadline.
ConfirmExpired(ci) == ci.expiresAt < now

\* POST /api/checkin/confirm with the token of check-in i.
ConfirmCheckIn(i) ==
  /\ Request
  /\ i \in DOMAIN checkIns
  /\ IF AlreadyProcessed(checkIns[i])
       THEN /\ last' = Did("confirm", "alreadyProcessed")
            /\ UNCHANGED <<cfg, checkIns, auditLog, escalationQ>>
       ELSE IF ConfirmExpired(checkIns[i])
         THEN /\ checkIns' = [checkIns EXCEPT ![i].status = "MISSED"]
              /\ last' = Did("confirm", "expired")
              /\ UNCHANGED <<cfg, auditLog, escalationQ>>
         ELSE /\ checkIns' = [checkIns EXCEPT ![i].status = "CONFIRMED"]
              /\ cfg' = CheckedInConfig(cfg)
              /\ auditLog' = Log(auditLog, "CHECK_IN_CONFIRMED")
              /\ escalationQ' = NoteConfirmation(escalationQ)
              /\ last' = Did("confirm", "done")
  /\ UNCHANGED <<now, trustees, letters, checkInQ, deathProtocolQ, timers,
                 accessLog, tokens, triggers, escalationRun, expiredCheckIns,
                 vault, trusteeLog, duePass>>

\* POST /api/checkin: the session user checks in from the dashboard.
ManualCheckIn ==
  /\ Request
  /\ IF cfg.status = "TRIGGERED"
       THEN /\ last' = Did("manualCheckIn", "rejected")
            /\ UNCHANGED <<cfg, checkIns, auditLog, escalationQ>>
       ELSE /\ cfg' = CheckedInConfig(cfg)
            /\ checkIns' = ConfirmAllPending(checkIns)
            /\ auditLog' = Log(auditLog, "MANUAL_CHECK_IN")
            /\ escalationQ' = NoteConfirmation(escalationQ)
            /\ last' = Did("manualCheckIn", "done")
  /\ UNCHANGED <<now, trustees, letters, checkInQ, deathProtocolQ, timers,
                 accessLog, tokens, triggers, escalationRun, expiredCheckIns,
                 vault, trusteeLog, duePass>>

\* POST /api/admin/checkin: an administrator forces the check-in.
AdminForceCheckIn ==
  /\ Request
  /\ cfg' = CheckedInConfig(cfg)
  /\ checkIns' = ConfirmAllPending(checkIns)
  /\ auditLog' = Log(auditLog, "ADMIN_FORCE_CHECK_IN")
  /\ escalationQ' = NoteConfirmation(escalationQ)
  /\ last' = Did("adminForceCheckIn", "done")
  /\ UNCHANGED <<now, trustees, letters, checkInQ, deathProtocolQ, timers,
                 accessLog, tokens, triggers, escalationRun, expiredCheckIns,
                 vault, trusteeLog, duePass>>

\* POST /api/admin/trigger: an administrator enqueues the death protocol.
AdminTrigger ==
  /\ Request
  /\ IF cfg.status = "TRIGGERED"
       THEN /\ last' = Did("adminTrigger", "rejected")
            /\ UNCHANGED <<deathProtocolQ, auditLog>>
       ELSE /\ deathProtocolQ' = triggerDeathProtocol(deathProtocolQ)
            /\ Len(deathProtocolQ') <= MaxJobs
            /\ auditLog' = Log(auditLog, "ADMIN_TRIGGER_DEATH_PROTOCOL")
            /\ last' = Did("adminTrigger", "done")
  /\ UNCHANGED <<now, cfg, checkIns, trustees, letters, checkInQ, escalationQ, timers,
                 accessLog, tokens, triggers, escalationRun, expiredCheckIns,
                 vault, trusteeLog, duePass>>

\* POST /api/polling {action: "pause"}.
PausePolling ==
  /\ Request
  /\ cfg' = Touch([cfg EXCEPT !.status = "PAUSED"])
  /\ auditLog' = Log(auditLog, "POLLING_PAUSED")
  /\ last' = Did("pause", "done")
  /\ UNCHANGED <<now, checkIns, trustees, letters, checkInQ, escalationQ, deathProtocolQ,
                 timers, accessLog, tokens, triggers, escalationRun, expiredCheckIns,
                 vault, trusteeLog, duePass>>

\* A resume that leaves the next due date alone: C20 must fail against it.
ResumedKeepingDue(c) == Touch([c EXCEPT !.status = "ACTIVE", !.currentMissedCheckIns = 0])

\* What resume writes (polling route lines 243-250).
ResumedConfig(c) ==
  Touch([c EXCEPT !.status = "ACTIVE",
                  !.currentMissedCheckIns = 0,
                  !.nextCheckInDue = AddInterval(now, c.interval)])

\* POST /api/polling {action: "resume"}.
ResumePolling ==
  /\ Request
  /\ cfg' = ResumedConfig(cfg)
  /\ auditLog' = Log(auditLog, "POLLING_RESUMED")
  /\ last' = Did("resume", "done")
  /\ UNCHANGED <<now, checkIns, trustees, letters, checkInQ, escalationQ, deathProtocolQ,
                 timers, accessLog, tokens, triggers, escalationRun, expiredCheckIns,
                 vault, trusteeLog, duePass>>

\* PUT /api/polling with a new interval.
UpdatePolling(interval) ==
  /\ Request
  /\ cfg' = Touch([cfg EXCEPT !.interval = interval,
                              !.nextCheckInDue = AddInterval(now, interval)])
  /\ auditLog' = Log(auditLog, "POLLING_CONFIG_UPDATED")
  /\ last' = Did("updatePolling", "done")
  /\ UNCHANGED <<now, checkIns, trustees, letters, checkInQ, escalationQ, deathProtocolQ,
                 timers, accessLog, tokens, triggers, escalationRun, expiredCheckIns,
                 vault, trusteeLog, duePass>>

\* The grace periods of the third level a user sets in the model.
GracePeriod3Values == {3, DefaultGracePeriod3}

\* PUT /api/polling with a new gracePeriod3 and no interval: the next due date is
\* left alone.
UpdateGracePeriod3(gracePeriod3) ==
  /\ Request
  /\ cfg' = Touch([cfg EXCEPT !.gracePeriod3 = gracePeriod3])
  /\ auditLog' = Log(auditLog, "POLLING_CONFIG_UPDATED")
  /\ last' = Did("updatePolling", "done")
  /\ UNCHANGED <<now, checkIns, trustees, letters, checkInQ, escalationQ, deathProtocolQ,
                 timers, accessLog, tokens, triggers, escalationRun, expiredCheckIns,
                 vault, trusteeLog, duePass>>

\* POST /api/trustees: a new trustee, PENDING until verified.  The verification
\* token generated for the row is modelled by the trustee's id.
CreateTrustee(t) ==
  /\ ManagementRequest
  /\ trustees[t].status = "NONE"
  /\ \A u \in TrusteeIds : u < t => trustees[u].status # "NONE"
  /\ trustees' = [trustees EXCEPT ![t].status = "PENDING", ![t].verificationToken = t]
  /\ auditLog' = Log(auditLog, "TRUSTEE_ADDED")
  /\ last' = Did("createTrustee", "done")
  /\ UNCHANGED <<now, cfg, checkIns, letters, checkInQ, escalationQ, deathProtocolQ,
                 timers, accessLog, tokens, triggers, escalationRun, expiredCheckIns,
                 vault, trusteeLog, duePass>>

\* PUT /api/trustees/[id] with a status.
UpdateTrustee(t, status) ==
  /\ ManagementRequest
  /\ trustees[t].status # "NONE"
  /\ trustees' = [trustees EXCEPT ![t].status = status]
  /\ auditLog' = Log(auditLog, "TRUSTEE_UPDATED")
  /\ last' = Did("updateTrustee", "done")
  /\ UNCHANGED <<now, cfg, checkIns, letters, checkInQ, escalationQ, deathProtocolQ,
                 timers, accessLog, tokens, triggers, escalationRun, expiredCheckIns,
                 vault, trusteeLog, duePass>>

\* DELETE /api/trustees/[id]: soft delete, revoking access.
DeleteTrustee(t) ==
  /\ ManagementRequest
  /\ trustees[t].status # "NONE"
  /\ trustees' = [trustees EXCEPT ![t].status = "REVOKED", ![t].accessToken = NULL,
                                  ![t].accessGrantedAt = NULL,
                                  ![t].accessExpiresAt = NULL]
  /\ auditLog' = Log(auditLog, "TRUSTEE_REMOVED")
  /\ last' = Did("deleteTrustee", "done")
  /\ UNCHANGED <<now, cfg, checkIns, letters, checkInQ, escalationQ, deathProtocolQ,
                 timers, accessLog, tokens, triggers, escalationRun, expiredCheckIns,
                 vault, trusteeLog, duePass>>

\* POST /api/letters: a new final letter, DRAFT or READY.
CreateLetter(l, status) ==
  /\ ManagementRequest
  /\ letters[l] = "NONE"
  /\ letters' = [letters EXCEPT ![l] = status]
  /\ auditLog' = Log(auditLog, "FINAL_LETTER_CREATED")
  /\ last' = Did("createLetter", "done")
  /\ UNCHANGED <<now, cfg, checkIns, trustees, checkInQ, escalationQ, deathProtocolQ,
                 timers, accessLog, tokens, triggers, escalationRun, expiredCheckIns,
                 vault, trusteeLog, duePass>>

\* POST /api/vault: the user creates the vault, once.
CreateVault ==
  /\ ManagementRequest
  /\ IF vault
       THEN /\ last' = Did("createVault", "rejected")
            /\ UNCHANGED <<vault, auditLog>>
       ELSE /\ vault' = TRUE
            /\ auditLog' = Log(auditLog, "VAULT_CREATED")
            /\ last' = Did("createVault", "done")
  /\ UNCHANGED <<now, cfg, checkIns, trustees, letters, checkInQ, escalationQ,
                 deathProtocolQ, timers, accessLog, tokens, triggers, escalationRun, expiredCheckIns,
                 trusteeLog, duePass>>

\* findFirst({verificationToken: token, status: "PENDING"}); 0: no such trustee.
TrusteeToVerify(ts, token) ==
  LET found == {t \in TrusteeIds :
                  ts[t].verificationToken = token /\ ts[t].status = "PENDING"}
  IN IF found = {} THEN 0 ELSE Min(found)

\* A verification that leaves the token on the row: C25 must fail against it.
VerifiedKeepingToken(tr) == [tr EXCEPT !.status = "VERIFIED", !.verifiedAt = now]

\* What a successful verification writes (verify route lines 43-50).
VerifiedTrustee(tr) ==
  [tr EXCEPT !.status = "VERIFIED", !.verifiedAt = now, !.verificationToken = NULL]

\* POST /api/trustee/verify with a verification token (0: a token never issued).
VerifyTrustee(token) ==
  /\ ManagementRequest
  /\ LET t == TrusteeToVerify(trustees, token)
     IN IF t = 0
          THEN /\ last' = DidWith("verifyTrustee", "invalid", token)
               /\ UNCHANGED <<trustees, trusteeLog>>
          ELSE /\ trustees' = [trustees EXCEPT ![t] = VerifiedTrustee(trustees[t])]
               /\ trusteeLog' = [trusteeLog EXCEPT ![t].EMAIL_VERIFIED = @ + 1]
               /\ last' = DidWith("verifyTrustee", "done", token)
  /\ UNCHANGED <<now, cfg, checkIns, letters, checkInQ, escalationQ, deathProtocolQ,
                 timers, auditLog, accessLog, tokens, triggers, escalationRun, expiredCheckIns, vault, duePass>>

\* findUnique({accessToken}); 0: no such trustee.
TrusteeWithAccess(ts, token) ==
  LET found == {t \in TrusteeIds : ts[t].accessToken = token}
  IN IF found = {} THEN 0 ELSE Min(found)

\* "trustee.accessExpiresAt && trustee.accessExpiresAt < new Date()" (access route line 73).
AccessExpired(tr) == tr.accessExpiresAt # NULL /\ tr.accessExpiresAt < now

\* POST /api/trustee/access with an access token (0: a token never issued).  The
\* VIEW row is written before the vault is looked at.
TrusteeAccess(token) ==
  /\ ManagementRequest
  /\ LET t == TrusteeWithAccess(trustees, token)
     IN IF t = 0
          THEN /\ last' = DidWith("trusteeAccess", "invalid", token)
               /\ UNCHANGED trusteeLog
          ELSE IF AccessExpired(trustees[t])
            THEN /\ last' = DidWith("trusteeAccess", "expired", token)
                 /\ UNCHANGED trusteeLog
            ELSE /\ trusteeLog' = [trusteeLog EXCEPT ![t].VIEW = @ + 1]
                 /\ last' = DidWith("trusteeAccess",
                                    IF vault THEN "vault" ELSE "noVault", token)
  /\ UNCHANGED <<now, cfg, checkIns, trustees, letters, checkInQ, escalationQ,
                 deathProtocolQ, timers, auditLog, accessLog, tokens, triggers,
                 escalationRun, expiredCheckIns, vault, duePass>>

\* The instants the granted accesses make interesting: the expiry of an access and
\* the day after it.
AccessInstants ==
  LET expiries == {trustees[t].accessExpiresAt : t \in TrusteeIds} \ {NULL}
  IN {t \in (now + 1)..MaxAccessTime : t \in expiries \/ (t - 1) \in expiries}

\* Time passes for a user whose release has run, up to the next such instant.
AccessTick ==
  /\ AccessInstants # {}
  /\ timers = {}
  /\ expiredCheckIns = NoneLoaded
  /\ now' = Min(AccessInstants)
  /\ last' = Did("tick", "done")
  /\ UNCHANGED <<cfg, checkIns, trustees, letters, checkInQ, escalationQ, deathProtocolQ,
                 timers, auditLog, accessLog, tokens, triggers, ops, escalationRun, expiredCheckIns,
                 vault, trusteeLog, duePass>>

\* ------------------------------------------------------------------- Next
Next ==
  \/ Tick
  \/ processScheduledTasks
  \/ loadExpiredCheckIns
  \/ markExpiredCheckIns
  \/ \E i \in DOMAIN checkInQ : checkInWorker(i)
  \/ \E i \in DOMAIN escalationQ : escalationWorker(i)
  \/ deathProtocolWorker
  \/ \E i \in 1..MaxCheckIns : ConfirmCheckIn(i)
  \/ ManualCheckIn
  \/ AdminForceCheckIn
  \/ AdminTrigger
  \/ PausePolling
  \/ ResumePolling
  \/ \E interval \in Intervals : UpdatePolling(interval)
  \/ \E t \in TrusteeIds : CreateTrustee(t)
  \/ \E t \in TrusteeIds, status \in TrusteeStatuses : UpdateTrustee(t, status)
  \/ \E t \in TrusteeIds : DeleteTrustee(t)
  \/ \E l \in LetterIds, status \in {"DRAFT", "READY"} : CreateLetter(l, status)

Spec == Init /\ [][Next]_vars

\* The scheduler runs on a timer (setInterval), the BullMQ workers take every job
\* that is waiting, and time passes.
FairSpec ==
  /\ Spec
  /\ WF_vars(Tick)
  /\ WF_vars(processScheduledTasks)
  /\ WF_vars(markExpiredCheckIns)
  /\ WF_vars(\E i \in DOMAIN checkInQ : checkInWorker(i))
  /\ WF_vars(\E i \in DOMAIN escalationQ : escalationWorker(i))
  /\ WF_vars(deathProtocolWorker)

\* The trustee side on its own: the trustees' requests, the owner's management of
\* trustees and vault, an administrator's trigger and the release, over the thirty
\* days of a granted access.
TrusteeNext ==
  \/ AccessTick
  \/ CreateVault
  \/ \E t \in TrusteeIds : CreateTrustee(t)
  \/ \E t \in TrusteeIds, status \in TrusteeStatuses : UpdateTrustee(t, status)
  \/ \E t \in TrusteeIds : DeleteTrustee(t)
  \/ \E token \in 0..NumTrustees : VerifyTrustee(token)
  \/ AdminTrigger
  \/ deathProtocolWorker
  \/ \E token \in 0..tokens : TrusteeAccess(token)

TrusteeSpec == Init /\ [][TrusteeNext]_vars

\* The job data the escalation worker accepts (EscalationJobData): a level and a
\* missed count.  The scheduler only ever enqueues the count it read plus one, which
\* the worker's guard never lets through; the jobs here carry the count itself.
EscalationJobs ==
  [level : 1..3, previousMissedCount : {0}, attempts : {0}, confirmedSince : {FALSE}]

\* The workers driven by jobs of any data: a WEEKLY user with one verified trustee,
\* whose escalation queue holds one or two jobs that pass the worker's guard.
WorkerInit ==
  /\ now = 0
  /\ \E gracePeriod3 \in GracePeriod3Values :
       cfg = [status |-> "ACTIVE", currentMissedCheckIns |-> 0, interval |-> "WEEKLY",
              gracePeriod1 |-> DefaultGracePeriod1, gracePeriod2 |-> DefaultGracePeriod2,
              gracePeriod3 |-> gracePeriod3, lastCheckInAt |-> NULL,
              nextCheckInDue |-> AddInterval(0, "WEEKLY"), triggeredAt |-> NULL,
              updatedAt |-> 0, grace3Since |-> NULL, grace3Period |-> NULL]
  /\ checkIns = <<>>
  /\ trustees = [t \in TrusteeIds |->
                   IF t = 1
                     THEN [status |-> "VERIFIED", verificationToken |-> NULL,
                           verifiedAt |-> 0, accessToken |-> NULL,
                           accessGrantedAt |-> NULL, accessExpiresAt |-> NULL]
                     ELSE [status |-> "NONE", verificationToken |-> NULL,
                           verifiedAt |-> NULL, accessToken |-> NULL,
                           accessGrantedAt |-> NULL, accessExpiresAt |-> NULL]]
  /\ letters = [l \in LetterIds |-> "NONE"]
  /\ checkInQ = <<>>
  /\ \E first \in EscalationJobs :
       \/ escalationQ = <<first>>
       \/ \E second \in EscalationJobs : escalationQ = <<first, second>>
  /\ deathProtocolQ = <<>>
  /\ timers = {}
  /\ auditLog = [k \in AuditKinds |->
                   IF k \in {"POLLING_CONFIG_UPDATED", "TRUSTEE_ADDED"} THEN 1 ELSE 0]
  /\ accessLog = [t \in TrusteeIds |-> 0]
  /\ tokens = 0
  /\ triggers = 0
  /\ ops = 2
  /\ last = Did("updatePolling", "done")
  /\ expiredCheckIns = NoneLoaded
  /\ escalationRun = NoRun
  /\ vault = FALSE
  /\ trusteeLog = [t \in TrusteeIds |->
                     [VIEW |-> 0, EMAIL_VERIFIED |-> IF t = 1 THEN 1 ELSE 0]]
  /\ duePass = NoDuePass

\* The scheduler on its own, with passes that overlap or end inside the due loop.
SchedulerNext ==
  \/ Tick
  \/ processScheduledTasks
  \/ createDueCheckIn
  \/ finishDueCheckIn
  \/ abortDueCheckIn
  \/ \E i \in DOMAIN checkInQ : checkInWorker(i)
  \/ \E i \in DOMAIN escalationQ : escalationWorker(i)
  \/ \E i \in 1..MaxCheckIns : ConfirmCheckIn(i)
  \/ ManualCheckIn
  \/ \E interval \in Intervals : UpdatePolling(interval)

SchedulerSpec == Init /\ [][SchedulerNext]_vars

\* Time in the worker runs: the clock of Tick, stopped after MaxWorkerTime days.
WorkerTick ==
  /\ Instants # {}
  /\ Min(Instants) <= MaxWorkerTime
  /\ Tick

WorkerNext ==
  \/ WorkerTick
  \/ processScheduledTasks
  \/ \E i \in DOMAIN escalationQ : escalationWorker(i)
  \/ \E i \in DOMAIN escalationQ : readEscalationJob(i)
  \/ writeEscalationJob
  \/ deathProtocolWorker
  \/ \E i \in 1..MaxCheckIns : ConfirmCheckIn(i)
  \/ ManualCheckIn
  \/ \E gracePeriod3 \in GracePeriod3Values : UpdateGracePeriod3(gracePeriod3)

WorkerSpec == WorkerInit /\ [][WorkerNext]_vars

\* ================================================================= claims

\* C1: once the PollingConfig is TRIGGERED, no later operation changes its status,
\* currentMissedCheckIns or triggeredAt.
C1_TriggeredIsTerminal ==
  [][cfg.status = "TRIGGERED" =>
       /\ cfg'.status = cfg.status
       /\ cfg'.currentMissedCheckIns = cfg.currentMissedCheckIns
       /\ cfg'.triggeredAt = cfg.triggeredAt]_vars

\* C2: at most one death-protocol run ever sets the PollingConfig to TRIGGERED.
C2_AtMostOneRelease == triggers <= 1

C4_FirstMissEscalates ==
  [][/\ (/\ last'.op = "scheduler"
         /\ cfg.status = "ACTIVE" /\ cfg.currentMissedCheckIns = 0
         /\ \E i \in DOMAIN checkIns :
              checkIns[i].status = "PENDING" /\ checkIns[i].expiresAt < now)
        => (/\ \A i \in DOMAIN checkIns :
                 (checkIns[i].status = "PENDING" /\ checkIns[i].expiresAt < now)
                   => checkIns'[i].status = "MISSED"
            /\ Len(escalationQ') > Len(escalationQ)
            /\ escalationQ'[Len(escalationQ')].level = 1)
     /\ (/\ last'.op = "escalationWorker" /\ last'.level = 1 /\ ~last'.raced
         /\ cfg.status = "ACTIVE" /\ cfg.currentMissedCheckIns = 0)
        => (/\ cfg'.status = "GRACE_1"
            /\ cfg'.currentMissedCheckIns = 1
            /\ Len(checkIns') = Len(checkIns) + 1
            /\ checkIns'[Len(checkIns')] =
                 [status |-> "PENDING", expiresAt |-> now + cfg.gracePeriod1])]_vars

\* C5: an escalation job executed after a confirmation that followed its enqueue
\* changes neither status nor currentMissedCheckIns and creates no check-in.
C5_RaceCancel ==
  [][(last'.op = "escalationWorker" /\ last'.raced) =>
       /\ cfg'.status = cfg.status
       /\ cfg'.currentMissedCheckIns = cfg.currentMissedCheckIns
       /\ checkIns' = checkIns]_vars

C5_Witness ==
  /\ last.op = "escalationWorker" /\ last.raced
  /\ cfg.status = "ACTIVE" /\ cfg.lastCheckInAt # NULL

\* C6: a successful token confirmation for an owner in ACTIVE or a grace status
\* sets, in one step, the check-in CONFIRMED and the PollingConfig to ACTIVE with no
\* missed check-in, lastCheckInAt = now and nextCheckInDue = now + interval, and
\* appends one CHECK_IN_CONFIRMED audit row.
C6_ConfirmResets ==
  [][(/\ last'.op = "confirm" /\ last'.result = "done"
      /\ cfg.status \in {"ACTIVE", "GRACE_1", "GRACE_2", "GRACE_3"})
     => /\ \E i \in DOMAIN checkIns :
             /\ checkIns[i].status = "PENDING" /\ checkIns[i].expiresAt >= now
             /\ checkIns' = [checkIns EXCEPT ![i].status = "CONFIRMED"]
        /\ cfg'.status = "ACTIVE"
        /\ cfg'.currentMissedCheckIns = 0
        /\ cfg'.lastCheckInAt = now
        /\ cfg'.nextCheckInDue =
             (CASE cfg.interval = "WEEKLY" -> now + 7
                [] cfg.interval = "BIWEEKLY" -> now + 14
                [] cfg.interval = "MONTHLY" -> AddMonth(now))
        /\ auditLog' = [auditLog EXCEPT !["CHECK_IN_CONFIRMED"] = @ + 1]]_vars

C6_Witness ==
  /\ last.op = "confirm" /\ last.result = "done"
  /\ \E i \in DOMAIN checkIns : checkIns[i].status = "CONFIRMED"
  /\ cfg.lastCheckInAt = now /\ cfg.nextCheckInDue = now + 7
  /\ auditLog["CHECK_IN_CONFIRMED"] = 1

\* C7: a death-protocol run that completes gives a fresh access token and status
\* ACTIVE to exactly the trustees that were VERIFIED or ACTIVE when it started, writes
\* one ACCESS_GRANTED row for each of them, and leaves every other trustee as it was.
C7_ReleaseGrantsEligible ==
  [][(last'.op = "deathProtocolWorker" /\ last'.result = "done") =>
       \A t \in TrusteeIds :
         IF trustees[t].status \in {"VERIFIED", "ACTIVE"}
           THEN /\ trustees'[t].status = "ACTIVE"
                /\ trustees'[t].accessToken # NULL
                /\ trustees'[t].accessToken # trustees[t].accessToken
                /\ \A u \in TrusteeIds \ {t} :
                     trustees'[u].accessToken # trustees'[t].accessToken
                /\ accessLog'[t] = accessLog[t] + 1
           ELSE /\ trustees'[t] = trustees[t]
                /\ accessLog'[t] = accessLog[t]]_vars

C7_Witness ==
  /\ last.op = "deathProtocolWorker" /\ last.result = "done"
  /\ \E t \in TrusteeIds : trustees[t].accessToken # NULL /\ accessLog[t] = 1
  /\ \E t \in TrusteeIds : trustees[t].status \in {"PENDING", "REVOKED"}

\* C8: after a death-protocol run has set TRIGGERED, every READY final letter is
\* eventually DELIVERED.
C8_ReadyLettersDelivered ==
  \A l \in LetterIds :
    (triggers > 0 /\ letters[l] = "READY") ~> (letters[l] = "DELIVERED")

\* C9: release provisioning is all-or-nothing: a death-protocol run, failed or
\* completed, leaves either a PollingConfig that is not TRIGGERED and no trustee
\* granted, or a TRIGGERED one and every trustee that was eligible holding a token.
C9_ReleaseAllOrNothing ==
  [][(last'.op = "deathProtocolWorker" /\ last'.result \in {"done", "failed"}) =>
       \/ /\ cfg'.status # "TRIGGERED"
          /\ trustees' = trustees
       \/ /\ cfg'.status = "TRIGGERED"
          /\ \A t \in TrusteeIds :
               trustees[t].status \in {"VERIFIED", "ACTIVE"}
                 => trustees'[t].accessToken # NULL]_vars

\* C10: a release job executed for a user who is already TRIGGERED changes no
\* trustee, leaves the PollingConfig as it is and writes no audit or access-log row.
C10_ReleaseIdempotent ==
  [][(last'.op = "deathProtocolWorker" /\ cfg.status = "TRIGGERED") =>
       /\ trustees' = trustees
       /\ cfg' = cfg
       /\ auditLog' = auditLog
       /\ accessLog' = accessLog
       /\ tokens' = tokens]_vars

C10_Witness ==
  /\ last.op = "deathProtocolWorker" /\ last.result = "skipped"
  /\ cfg.status = "TRIGGERED"
  /\ \E t \in TrusteeIds : trustees[t].accessToken # NULL

\* C11: a check-in becomes CONFIRMED only in a step that finds it PENDING with
\* now < expiresAt, whichever handler confirms it; a PENDING check-in past its
\* deadline is never confirmed.
C11_ConfirmOnlyBeforeDeadline ==
  [][\A i \in DOMAIN checkIns :
       (checkIns[i].status # "CONFIRMED" /\ checkIns'[i].status = "CONFIRMED")
         => (checkIns[i].status = "PENDING" /\ now < checkIns[i].expiresAt)]_vars

\* C12: a token confirmation whose check-in is PENDING with expiresAt exactly equal
\* to now fails as expired: no such check-in becomes CONFIRMED, and when no other
\* check-in is PENDING the PollingConfig is left as it is.
C12_ConfirmAtDeadlineFails ==
  [][(/\ last'.op = "confirm"
      /\ \E i \in DOMAIN checkIns : checkIns[i].status = "PENDING"
      /\ \A i \in DOMAIN checkIns :
           checkIns[i].status = "PENDING" => checkIns[i].expiresAt = now)
     => (/\ \A i \in DOMAIN checkIns : checkIns'[i].status # "CONFIRMED"
                                         \/ checkIns[i].status = "CONFIRMED"
         /\ cfg' = cfg)]_vars

\* C13: a check-in that is CONFIRMED, MISSED or CANCELLED is never set back to PENDING.
C13_NeverReopened ==
  [][\A i \in DOMAIN checkIns :
       checkIns[i].status # "PENDING" => checkIns'[i].status # "PENDING"]_vars

C13_Witness ==
  /\ last.op \in {"manualCheckIn", "adminForceCheckIn"} /\ last.result = "done"
  /\ \E i \in DOMAIN checkIns : checkIns[i].status = "MISSED"

\* C14: under any interleaving of the confirmation handlers and the scheduler's
\* expiry sweep, a check-in's status is written once: a check-in that is no longer
\* PENDING keeps its status (MISSED never becomes CONFIRMED, CONFIRMED never MISSED).
C14_ResolvedOnce ==
  [][\A i \in DOMAIN checkIns :
       checkIns[i].status # "PENDING" => checkIns'[i].status = checkIns[i].status]_vars

\* C15: every trustee that holds an access token has status ACTIVE, a grant date and
\* an expiry date after the grant date.
C15_TokenImpliesActive ==
  \A t \in TrusteeIds :
    trustees[t].accessToken # NULL
      => /\ trustees[t].status = "ACTIVE"
         /\ trustees[t].accessGrantedAt # NULL
         /\ trustees[t].accessExpiresAt > trustees[t].accessGrantedAt

\* C16: a PollingConfig with status TRIGGERED has a triggeredAt date.
C16_TriggeredHasDate == cfg.status = "TRIGGERED" => cfg.triggeredAt # NULL

C16_Witness ==
  /\ cfg.status = "TRIGGERED" /\ cfg.triggeredAt = now
  /\ last.op = "deathProtocolWorker" /\ last.result \in {"done", "failed"}

\* C17: a PollingConfig with status ACTIVE has currentMissedCheckIns = 0.
C17_ActiveHasNoMiss == cfg.status = "ACTIVE" => cfg.currentMissedCheckIns = 0

C17_Witness ==
  /\ cfg.status = "ACTIVE" /\ cfg.currentMissedCheckIns = 0
  /\ last.op \in {"resume", "confirm", "escalationWorker"}
  /\ \E i \in DOMAIN checkIns : checkIns[i].status = "MISSED"

\* C18: a newly registered user's PollingConfig is ACTIVE with nextCheckInDue set to
\* the creation time plus the interval.
C18_NewUserHasDueDate ==
  last.op = "register"
    => /\ cfg.status = "ACTIVE"
       /\ cfg.nextCheckInDue # NULL
       /\ cfg.nextCheckInDue = (CASE cfg.interval = "WEEKLY" -> now + 7
                                   [] cfg.interval = "BIWEEKLY" -> now + 14
                                   [] cfg.interval = "MONTHLY" -> AddMonth(now))

\* C19: while the PollingConfig is PAUSED, a scheduler pass that reads it and finds
\* a PENDING check-in expired marks the check-in MISSED, enqueues no escalation and
\* issues no check-in, and an execution of the check-in worker or of the escalation
\* worker leaves the PollingConfig as it is.  (A pass is the uninterrupted
\* processScheduledTasks, or the loop of an overtaken pass whose query read PAUSED.)
C19_PausedIsQuiet ==
  [][cfg.status = "PAUSED" =>
       /\ (last'.op = "scheduler" =>
             /\ \A i \in DOMAIN checkIns :
                  (checkIns[i].status = "PENDING" /\ checkIns[i].expiresAt < now)
                    => checkIns'[i].status = "MISSED"
             /\ escalationQ' = escalationQ
             /\ checkInQ' = checkInQ
             /\ Len(checkIns') = Len(checkIns))
       /\ (last'.op = "schedulerQuery" =>
             checkInQ' = checkInQ /\ Len(checkIns') = Len(checkIns))
       /\ ((last'.op = "schedulerLoop" /\ expiredCheckIns.status = "PAUSED") =>
             /\ \A i \in expiredCheckIns.ids : checkIns'[i].status = "MISSED"
             /\ escalationQ' = escalationQ
             /\ Len(checkIns') = Len(checkIns))
       /\ (last'.op \in {"checkInWorker", "escalationWorker"} => cfg' = cfg)]_vars

C19_Witness ==
  /\ cfg.status = "PAUSED"
  /\ last.op = "scheduler" /\ last.result = "done"
  /\ Len(checkIns) = 1 /\ checkIns[1].status = "MISSED" /\ checkIns[1].expiresAt = now - 1
  /\ escalationQ = <<>>

\* C20: resume applied to a PAUSED PollingConfig sets status ACTIVE,
\* currentMissedCheckIns 0 and nextCheckInDue to the resume time plus the interval.
C20_ResumeResets ==
  [][(last'.op = "resume" /\ cfg.status = "PAUSED") =>
       /\ cfg'.status = "ACTIVE"
       /\ cfg'.currentMissedCheckIns = 0
       /\ cfg'.interval = cfg.interval
       /\ cfg'.nextCheckInDue = (CASE cfg.interval = "WEEKLY" -> now + 7
                                    [] cfg.interval = "BIWEEKLY" -> now + 14
                                    [] cfg.interval = "MONTHLY" -> AddMonth(now))]_vars

C20_Witness ==
  /\ last.op = "resume" /\ ops = 4
  /\ auditLog["POLLING_PAUSED"] = 1 /\ auditLog["POLLING_RESUMED"] = 1
  /\ cfg.status = "ACTIVE" /\ cfg.nextCheckInDue = now + 31

\* C21: processing a check-in result for a user whose status is PAUSED, a token
\* confirmation or a miss (a scheduler pass over expired check-ins, an escalation
\* job), leaves the status PAUSED and currentMissedCheckIns as it was.
C21_PausedIgnoresResults ==
  [][(/\ cfg.status = "PAUSED"
      /\ last'.op \in {"confirm", "scheduler", "schedulerLoop", "escalationWorker"})
     => /\ cfg'.status = "PAUSED"
        /\ cfg'.currentMissedCheckIns = cfg.currentMissedCheckIns]_vars

\* C23: a POST /checkin/confirm with a token whose check-in is already CONFIRMED
\* changes no CheckIn, PollingConfig or AuditLog state: a confirm request that takes
\* no check-in out of PENDING leaves all three as they were, and it is answered as
\* already processed.
C23_RepeatedConfirmIsNoOp ==
  [][last'.op = "confirm" =>
       \/ \E i \in DOMAIN checkIns :
            checkIns[i].status = "PENDING" /\ checkIns'[i].status # "PENDING"
       \/ /\ last'.result = "alreadyProcessed"
          /\ checkIns' = checkIns
          /\ cfg' = cfg
          /\ auditLog' = auditLog]_vars

C23_Witness ==
  /\ last.op = "confirm" /\ last.result = "alreadyProcessed"
  /\ Len(checkIns) = 1 /\ checkIns[1].status = "CONFIRMED"
  /\ auditLog["CHECK_IN_CONFIRMED"] = 1
  /\ cfg.lastCheckInAt # NULL

\* C24: POST /trustee/access returns vault data only for an access token of a
\* trustee whose accessExpiresAt is later than now, and answers a token whose
\* accessExpiresAt is now or earlier with the expired error.
C24_AccessOnlyBeforeExpiry ==
  [][last'.op = "trusteeAccess" =>
       LET holders == {t \in TrusteeIds : trustees[t].accessToken = last'.token}
       IN /\ last'.result = "vault"
               => \E t \in holders : trustees[t].accessExpiresAt > now
          /\ \A t \in holders :
               (trustees[t].accessExpiresAt # NULL /\ trustees[t].accessExpiresAt <= now)
                 => last'.result = "expired"]_vars

\* C25: a trustee verification token succeeds at most once: a successful
\* verification leaves the trustee VERIFIED with the token cleared, a failed one
\* changes no trustee, and no trustee is ever verified twice.
C25_VerifyOnce ==
  /\ [](\A t \in TrusteeIds : trusteeLog[t].EMAIL_VERIFIED <= 1)
  /\ [][last'.op = "verifyTrustee" =>
         IF last'.result = "done"
           THEN \E t \in TrusteeIds :
                  /\ trustees[t].verificationToken = last'.token
                  /\ trustees'[t].status = "VERIFIED"
                  /\ trustees'[t].verificationToken = NULL
                  /\ \A u \in TrusteeIds : trustees'[u].verificationToken # last'.token
                  /\ \A u \in TrusteeIds \ {t} : trustees'[u] = trustees[u]
           ELSE trustees' = trustees /\ trusteeLog' = trusteeLog]_vars

C25_Witness ==
  /\ last.op = "verifyTrustee" /\ last.result = "invalid" /\ last.token = 1
  /\ trusteeLog[1].EMAIL_VERIFIED = 1
  /\ trustees[1].status = "PENDING" /\ trustees[1].verificationToken = NULL

\* C26: an escalation job executed for a user who is neither PAUSED nor TRIGGERED is
\* stale, and changes nothing, exactly when the missed count it carries differs from
\* currentMissedCheckIns; and a job the scheduler enqueued, executed with no
\* confirmation in between, is applied: the count goes up by one and the status
\* becomes the grace status of the job's level.
C26_FreshJobApplied ==
  [][(last'.op = "escalationWorker" /\ cfg.status \notin {"PAUSED", "TRIGGERED"}) =>
       /\ \E i \in DOMAIN escalationQ :
            /\ escalationQ[i].level = last'.level
            /\ escalationQ[i].confirmedSince = last'.raced
            /\ (cfg' = cfg /\ checkIns' = checkIns)
                 <=> (escalationQ[i].previousMissedCount # cfg.currentMissedCheckIns)
       /\ ~last'.raced =>
            /\ cfg'.currentMissedCheckIns = cfg.currentMissedCheckIns + 1
            /\ cfg'.status = (CASE last'.level = 1 -> "GRACE_1"
                                 [] last'.level = 2 -> "GRACE_2"
                                 [] last'.level = 3 -> "GRACE_3")]_vars

C32_MissedIsEscalated ==
  [][(/\ cfg.status \in {"ACTIVE", "GRACE_1", "GRACE_2"}
      /\ \E i \in DOMAIN checkIns :
            checkIns[i].status = "PENDING" /\ checkIns'[i].status = "MISSED")
     => Len(escalationQ') > Len(escalationQ)]_vars

\* C33: the due subscan creates one check-in for each due cycle: it creates none for
\* a nextCheckInDue for which it has created one already, also when a pass ended
\* between creating the check-in and advancing nextCheckInDue or when passes overlap.
C33_OneCheckInPerDueCycle ==
  [][(/\ last'.op \in {"scheduler", "schedulerQuery", "schedulerCreate"}
      /\ Len(checkIns') > Len(checkIns))
     => cfg.nextCheckInDue # duePass.issuedFor]_vars

\* C34: enqueues with the same idempotency key are coalesced: the death-protocol
\* queue, whose jobs all carry the key of the one user, never holds two jobs.
C34_ReleaseEnqueuesCoalesced == Len(deathProtocolQ) <= 1

C36_RevokedHoldsNoToken ==
  \A t \in TrusteeIds :
    trustees[t].status = "REVOKED" => trustees[t].accessToken = NULL

\* C37: resume applied to a PollingConfig that is not PAUSED leaves its status, its
\* missed count and its next due date as they were.
C37_ResumeOnlyFromPaused ==
  [][(last'.op = "resume" /\ cfg.status # "PAUSED")
     => /\ cfg'.status = cfg.status
        /\ cfg'.currentMissedCheckIns = cfg.currentMissedCheckIns
        /\ cfg'.nextCheckInDue = cfg.nextCheckInDue]_vars

\* C38: a job that keeps failing is attempted at most maxAttempts times (no queued
\* job has already failed maxAttempts times), and when a check-in job fails on its
\* last attempt and is dropped, an audit row is written for it.
C38_FailedJobIsAudited ==
  [][/\ \A i \in DOMAIN checkInQ' : checkInQ'[i].attempts < CheckInAttempts
     /\ \A i \in DOMAIN escalationQ' : escalationQ'[i].attempts < EscalationAttempts
     /\ \A i \in DOMAIN deathProtocolQ' : deathProtocolQ'[i].attempts < DeathProtocolAttempts
     /\ (/\ last'.op = "checkInWorker"
         /\ last'.result = "failed"
         /\ \E i \in DOMAIN checkInQ :
               /\ checkInQ[i].attempts + 1 = CheckInAttempts
               /\ checkInQ' = RemoveAt(checkInQ, i))
        => auditLog' # auditLog]_vars

\* C39: a scheduler pass in which an error is raised while a due row is processed
\* still processes the rows that remain: when the pass ends, no PENDING check-in
\* that has expired is left unmarked.  The subscans of a pass run over the rows of
\* all users; the expired check-in of the model's one user stands for any of them.
C39_PassSurvivesRowError ==
  [][last'.op \in {"scheduler", "schedulerFinish", "schedulerAbort"}
     => \A i \in DOMAIN checkIns' : ~CheckInIsExpired(checkIns'[i])]_vars
====
